---- MODULE Spec2Model ----
(***************************************************************************)
(* Model of the group monitor of loxone_knx_datalogger.py:                 *)
(* LoxoneAnalyzer.start_group_monitoring (the lifecycle controller, run on *)
(* the main thread from main()'s menu loop) and its nested monitor_loop    *)
(* (the poller, a daemon thread), together with get_control_state (the     *)
(* state fetch) and the CSV file the two write through one buffered        *)
(* handle per session.                                                     *)
(*                                                                         *)
(* A session is one call of start_group_monitoring; sessions are numbered  *)
(* 1, 2, ... in the order main() starts them.  All sessions of the model   *)
(* name the same csv_filename.                                             *)
(***************************************************************************)
EXTENDS Integers, Sequences, FiniteSets, TLC

\* ------------------------------------------------------------------ bounds
MaxSessions == 2      \* calls of start_group_monitoring in one process
MaxFetches == 4       \* get_control_state calls of the passes begun, over all sessions
MaxClock == 2         \* largest reading of datetime.now()

\* ------------------------------------------------------------ value domains
\* The value of Python's None (get_control_state's "unavailable").
None == "<None>"
\* The state strings a control reports (str(data['LL']['value'])).
States == {"on", "off"}
\* What get_control_state returns: a state string, or None on any failure.
FetchResults == States \cup {None}
\* The selections main() may hand to start_group_monitoring (uuids, in
\* catalog order); the empty one is the "no controls selected" case.
Catalogs == {<< >>, <<"e1">>, <<"e1", "e2">>}
Uuids == {"e1", "e2"}
Sessions == 1..MaxSessions

\* The header row written by writer.writeheader().
HeaderRow == [phase |-> "header", sess |-> 0, uuid |-> "uuid", state |-> "state", ts |-> 0]
\* A data row left by an earlier run of the program.
PriorRow == [phase |-> "prior", sess |-> 0, uuid |-> "e1", state |-> "on", ts |-> 0]
\* What the csv file holds when the process starts: nothing (no file), or a
\* header and the rows of earlier runs.
PriorFiles == {<< >>, <<HeaderRow>>, <<HeaderRow, PriorRow>>}

\* Faulty variant: the timestamp column is not filled in.
RowUnstamped(s, ph, u, st, t) == [phase |-> ph, sess |-> s, uuid |-> u, state |-> st, ts |-> 0]

\* The row dict built for one control; name, type and room are functions of
\* the control and are left out.  sess and phase are bookkeeping of the
\* model (which session wrote the row, in its baseline pass or its loop).
Row(s, ph, u, st, t) == [phase |-> ph, sess |-> s, uuid |-> u, state |-> st, ts |-> t]

VARIABLES
    mainpc,          \* where the main thread is: menu, open, baseline, flush, input, join, exited
    nSess,           \* number of start_group_monitoring calls so far; the main thread is in call nSess
    bidx,            \* index of the baseline pass's for loop
    clock,           \* last reading of datetime.now()
    file_exists,     \* os.path.exists(csv_filename)
    file,            \* rows on disk
    controls,        \* per session: selected_controls
    monitoring,      \* per session: monitoring["active"]
    last_states,     \* per session: last_states (None: no entry)
    csvfile,         \* per session: the handle: none, open, closed
    buf,             \* per session: rows written through the handle, not yet flushed
    pollpc,          \* per session: the poller: idle, while, fetch, flush, done, dead
    pidx,            \* per session: index of monitor_loop's for loop
    timestamp,       \* per session: monitor_loop's timestamp
    checks_count,    \* per session: monitor_loop's checks_count
    changes_count,   \* per session: monitor_loop's changes_count
    fetchLog,        \* per session and uuid: every result get_control_state returned (history)
    closes,          \* per session: number of csvfile.close() calls (history)
    reported         \* per session: what the caller was told: none, rejected, stopped, error (history)

vars == <<mainpc, nSess, bidx, clock, file_exists, file, controls, monitoring,
          last_states, csvfile, buf, pollpc, pidx, timestamp, checks_count,
          changes_count, fetchLog, closes, reported>>

\* ---------------------------------------------------------------- helpers
\* datetime.now(): every reading is later than the one before, until the
\* model's largest reading is reached; from then on readings are equal.
Now == {IF clock < MaxClock THEN clock + 1 ELSE clock}

\* The get_control_state calls of every pass begun so far: one baseline pass
\* and checks_count ticks per session, each over the session's controls.
\* A session or a tick begins only while its pass fits into MaxFetches.
RECURSIVE FetchesBegun(_)
FetchesBegun(n) ==
    IF n = 0 THEN 0
    ELSE Len(controls[n]) * (1 + checks_count[n]) + FetchesBegun(n - 1)

\* Whether session s's poller thread is running.
Alive(s) == pollpc[s] \in {"while", "fetch", "flush"}

Init ==
    /\ mainpc = "menu"
    /\ nSess = 0
    /\ bidx = 0
    /\ clock = 0
    /\ file \in PriorFiles
    /\ file_exists = (file # << >>)
    /\ controls = [s \in Sessions |-> << >>]
    /\ monitoring = [s \in Sessions |-> FALSE]
    /\ last_states = [s \in Sessions |-> [u \in Uuids |-> None]]
    /\ csvfile = [s \in Sessions |-> "none"]
    /\ buf = [s \in Sessions |-> << >>]
    /\ pollpc = [s \in Sessions |-> "idle"]
    /\ pidx = [s \in Sessions |-> 0]
    /\ timestamp = [s \in Sessions |-> 0]
    /\ checks_count = [s \in Sessions |-> 0]
    /\ changes_count = [s \in Sessions |-> 0]
    /\ fetchLog = [s \in Sessions |-> [u \in Uuids |-> << >>]]
    /\ closes = [s \in Sessions |-> 0]
    /\ reported = [s \in Sessions |-> "none"]

\* ------------------------------------------------- the code's own decisions
\* Faulty variant: the None test dropped.
IsFetchedAlways(r) == TRUE

\* `if current_state is not None` / `if new_state is not None`.
IsFetched(r) == r # None

\* Faulty variant: every fetched state counts as a change.
StateChangedAlways(new_state, old_state) == TRUE

\* Faulty variant: a change needs a stored state to differ from.
StateChangedFromKnown(new_state, old_state) == old_state # None /\ new_state # old_state

\* `if new_state != old_state`, old_state being last_states.get(uuid).
StateChanged(new_state, old_state) == new_state # old_state

\* Faulty variant: the tick is not counted.
CountCheckNot(n) == n

\* `checks_count += 1`, the first statement of a tick.
CountCheck(n) == n + 1

\* Faulty variant: the controls are visited last to first.
ControlAtReversed(sel, i) == sel[Len(sel) + 1 - i]

\* `for control in selected_controls`: the control of iteration i.
ControlAt(sel, i) == sel[i]

\* Faulty variant: the fetched state is not stored.
SetStateDropped(ls, u, st) == ls

\* `last_states[uuid] = state`.
SetState(ls, u, st) == [ls EXCEPT ![u] = st]

\* Faulty variant: the file was opened with mode 'w', not 'a': what the handle
\* writes replaces what was there.
FlushedOverwriting(rows, buffer) == buffer

\* What csvfile.flush() (and the flush of csvfile.close()) leaves on disk.
Flushed(rows, buffer) == rows \o buffer

\* Faulty variant: no flush after the loop's writerow.
LoopPcAfterWriteNoFlush == "fetch"

\* monitor_loop calls csvfile.flush() right after writer.writerow(row).
LoopPcAfterWrite == "flush"

\* The baseline pass calls csvfile.flush() once, after its for loop.
BaselinePcAfterWrite == "baseline"

\* `except Exception as e`: the handler of start_group_monitoring.
HandleException(s) ==
    /\ monitoring' = [monitoring EXCEPT ![s] = FALSE]
    /\ reported' = [reported EXCEPT ![s] = "error"]
    /\ mainpc' = "menu"
    /\ bidx' = 0

\* ------------------------------------------------- the main thread's steps
\* Faulty variant: no `if not selected_controls: return`.
StartGroupMonitoringUnchecked(sel) ==
    /\ mainpc = "menu"
    /\ nSess < MaxSessions
    /\ FetchesBegun(MaxSessions) + Len(sel) <= MaxFetches
    /\ nSess' = nSess + 1
    /\ controls' = [controls EXCEPT ![nSess + 1] = sel]
    /\ monitoring' = [monitoring EXCEPT ![nSess + 1] = TRUE]
    /\ mainpc' = "open"
    /\ UNCHANGED <<bidx, clock, file_exists, file, last_states, csvfile, buf,
                   pollpc, pidx, timestamp, checks_count, changes_count,
                   fetchLog, closes, reported>>

\* main() calls start_group_monitoring(sel): the empty check, then the
\* session's locals (monitoring = {"active": True}, last_states = {}).
StartGroupMonitoring(sel) ==
    /\ mainpc = "menu"
    /\ nSess < MaxSessions
    /\ FetchesBegun(MaxSessions) + Len(sel) <= MaxFetches
    /\ nSess' = nSess + 1
    /\ IF sel = << >>
       THEN /\ reported' = [reported EXCEPT ![nSess + 1] = "rejected"]
            /\ UNCHANGED <<mainpc, controls, monitoring>>
       ELSE /\ controls' = [controls EXCEPT ![nSess + 1] = sel]
            /\ monitoring' = [monitoring EXCEPT ![nSess + 1] = TRUE]
            /\ mainpc' = "open"
            /\ UNCHANGED reported
    /\ UNCHANGED <<bidx, clock, file_exists, file, last_states, csvfile, buf,
                   pollpc, pidx, timestamp, checks_count, changes_count,
                   fetchLog, closes>>

\* Faulty variant: monitor_thread is started right after the file is opened,
\* before the baseline pass.
OpenCsvThenThread(ok) ==
    /\ mainpc = "open"
    /\ ok
    /\ csvfile' = [csvfile EXCEPT ![nSess] = "open"]
    /\ file_exists' = TRUE
    /\ buf' = [buf EXCEPT ![nSess] = IF file_exists THEN << >> ELSE <<HeaderRow>>]
    /\ pollpc' = [pollpc EXCEPT ![nSess] = "while"]
    /\ mainpc' = "baseline"
    /\ bidx' = 1
    /\ UNCHANGED <<nSess, clock, file, controls, last_states, pidx, monitoring,
                   reported, timestamp, checks_count, changes_count, fetchLog, closes>>

\* os.path.exists, open(csv_filename, 'a'), and writeheader() for a new file.
\* ok = FALSE: open raises (destination unwritable).
OpenCsv(ok) ==
    /\ mainpc = "open"
    /\ LET s == nSess IN
       IF ok
       THEN /\ csvfile' = [csvfile EXCEPT ![s] = "open"]
            /\ file_exists' = TRUE
            /\ buf' = [buf EXCEPT ![s] = IF file_exists THEN << >> ELSE <<HeaderRow>>]
            /\ mainpc' = "baseline"
            /\ bidx' = 1
            /\ UNCHANGED <<monitoring, reported>>
       ELSE /\ HandleException(s)
            /\ UNCHANGED <<csvfile, file_exists, buf>>
    /\ UNCHANGED <<nSess, clock, file, controls, last_states, pollpc, pidx,
                   timestamp, checks_count, changes_count, fetchLog, closes>>

\* One iteration of the baseline for loop: fetch, and for a fetched state
\* store it and write its row.  wok = FALSE: writer.writerow raises.
BaselineStep(r, wok) ==
    /\ mainpc = "baseline"
    /\ LET s == nSess
           u == ControlAt(controls[nSess], bidx)
       IN
       /\ fetchLog' = [fetchLog EXCEPT ![s][u] = Append(@, r)]
       /\ IF IsFetched(r)
          THEN /\ last_states' = [last_states EXCEPT ![s] = SetState(@, u, r)]
               /\ \E t \in Now :
                    /\ clock' = t
                    /\ IF wok
                       THEN /\ buf' = [buf EXCEPT ![s] = Append(@, Row(s, "baseline", u, r, t))]
                            /\ IF bidx < Len(controls[s])
                               THEN /\ bidx' = bidx + 1
                                    /\ mainpc' = BaselinePcAfterWrite
                               ELSE /\ bidx' = 0
                                    /\ mainpc' = "flush"
                            /\ UNCHANGED <<monitoring, reported>>
                       ELSE /\ HandleException(s)
                            /\ UNCHANGED buf
          ELSE /\ wok
               /\ IF bidx < Len(controls[s])
                  THEN bidx' = bidx + 1 /\ mainpc' = "baseline"
                  ELSE bidx' = 0 /\ mainpc' = "flush"
               /\ UNCHANGED <<last_states, clock, buf, monitoring, reported>>
    /\ UNCHANGED <<nSess, file_exists, file, controls, csvfile, pollpc, pidx,
                   timestamp, checks_count, changes_count, closes>>

\* csvfile.flush() after the baseline pass, then monitor_thread.start() and
\* the wait in input().  ok = FALSE: flush raises.
BaselineFlush(ok) ==
    /\ mainpc = "flush"
    /\ LET s == nSess IN
       IF ok
       THEN /\ file' = Flushed(file, buf[s])
            /\ buf' = [buf EXCEPT ![s] = << >>]
            /\ pollpc' = [pollpc EXCEPT ![s] = "while"]
            /\ mainpc' = "input"
            /\ UNCHANGED <<monitoring, reported, bidx>>
       ELSE /\ HandleException(s)
            /\ UNCHANGED <<file, buf, pollpc>>
    /\ UNCHANGED <<nSess, clock, file_exists, controls, last_states, csvfile,
                   pidx, timestamp, checks_count, changes_count, fetchLog, closes>>

\* input() returns (the operator pressed Enter): monitoring["active"] = False.
PressEnter ==
    /\ mainpc = "input"
    /\ monitoring' = [monitoring EXCEPT ![nSess] = FALSE]
    /\ mainpc' = "join"
    /\ UNCHANGED <<nSess, bidx, clock, file_exists, file, controls, last_states,
                   csvfile, buf, pollpc, pidx, timestamp, checks_count,
                   changes_count, fetchLog, closes, reported>>

\* monitor_thread.join(timeout=5) returns, because the thread ended or
\* because 5 seconds passed (its result is not looked at), then the
\* "Monitoreo detenido por el usuario" banner and the return to main().
\* A poller between two ticks is in time.sleep(1) and then leaves the loop,
\* well within the 5 seconds; the 5 seconds pass only while it is inside a
\* tick (each get_control_state may take its own 5 second timeout).
JoinReturn ==
    /\ mainpc = "join"
    /\ pollpc[nSess] # "while"
    /\ reported' = [reported EXCEPT ![nSess] = "stopped"]
    /\ mainpc' = "menu"
    /\ UNCHANGED <<nSess, bidx, clock, file_exists, file, controls, monitoring,
                   last_states, csvfile, buf, pollpc, pidx, timestamp,
                   checks_count, changes_count, fetchLog, closes>>

\* Menu choice 3: main() returns and the process ends; daemon threads stop
\* wherever they are.
Exit ==
    /\ mainpc = "menu"
    /\ mainpc' = "exited"
    /\ UNCHANGED <<nSess, bidx, clock, file_exists, file, controls, monitoring,
                   last_states, csvfile, buf, pollpc, pidx, timestamp,
                   checks_count, changes_count, fetchLog, closes, reported>>

\* ---------------------------------------------------- the poller's steps
\* The for loop's advance; after the last control, time.sleep(1) and back
\* to the while test.
Advance(s) ==
    IF pidx[s] < Len(controls[s])
    THEN /\ pidx' = [pidx EXCEPT ![s] = @ + 1]
         /\ pollpc' = [pollpc EXCEPT ![s] = "fetch"]
    ELSE /\ pidx' = [pidx EXCEPT ![s] = 0]
         /\ pollpc' = [pollpc EXCEPT ![s] = "while"]

\* `while monitoring["active"]`: start a tick (checks_count += 1, take the
\* timestamp), or leave the loop and csvfile.close().
PollWhile(s) ==
    /\ mainpc # "exited"
    /\ pollpc[s] = "while"
    /\ IF monitoring[s]
       THEN /\ FetchesBegun(MaxSessions) + Len(controls[s]) <= MaxFetches
            /\ checks_count' = [checks_count EXCEPT ![s] = CountCheck(@)]
            /\ \E t \in Now :
                 /\ clock' = t
                 /\ timestamp' = [timestamp EXCEPT ![s] = t]
            /\ pidx' = [pidx EXCEPT ![s] = 1]
            /\ pollpc' = [pollpc EXCEPT ![s] = "fetch"]
            /\ UNCHANGED <<file, buf, csvfile, closes>>
       ELSE /\ file' = Flushed(file, buf[s])
            /\ buf' = [buf EXCEPT ![s] = << >>]
            /\ csvfile' = [csvfile EXCEPT ![s] = "closed"]
            /\ closes' = [closes EXCEPT ![s] = @ + 1]
            /\ pollpc' = [pollpc EXCEPT ![s] = "done"]
            /\ UNCHANGED <<checks_count, clock, timestamp, pidx>>
    /\ UNCHANGED <<mainpc, nSess, bidx, file_exists, controls, monitoring,
                   last_states, changes_count, fetchLog, reported>>

\* One iteration of monitor_loop's for loop up to writer.writerow(row).
\* wok = FALSE: writerow raises, which ends the thread.
PollFetch(s, r, wok) ==
    /\ mainpc # "exited"
    /\ pollpc[s] = "fetch"
    /\ LET u == ControlAt(controls[s], pidx[s])
           old_state == last_states[s][u]
       IN
       /\ fetchLog' = [fetchLog EXCEPT ![s][u] = Append(@, r)]
       /\ IF IsFetched(r) /\ StateChanged(r, old_state)
          THEN /\ changes_count' = [changes_count EXCEPT ![s] = @ + 1]
               /\ last_states' = [last_states EXCEPT ![s] = SetState(@, u, r)]
               /\ IF wok
                  THEN /\ buf' = [buf EXCEPT ![s] = Append(@, Row(s, "change", u, r, timestamp[s]))]
                       /\ IF LoopPcAfterWrite = "flush"
                          THEN /\ pollpc' = [pollpc EXCEPT ![s] = "flush"]
                               /\ UNCHANGED pidx
                          ELSE Advance(s)
                  ELSE /\ pollpc' = [pollpc EXCEPT ![s] = "dead"]
                       /\ UNCHANGED <<buf, pidx>>
          ELSE /\ wok
               /\ Advance(s)
               /\ UNCHANGED <<changes_count, last_states, buf>>
    /\ UNCHANGED <<mainpc, nSess, bidx, clock, file_exists, file, controls,
                   monitoring, csvfile, timestamp, checks_count, closes, reported>>

\* Faulty variant: csvfile.close() inside the for loop, after the flush.
PollFlushClosing(s, ok) ==
    /\ mainpc # "exited"
    /\ pollpc[s] = "flush"
    /\ IF ok
       THEN /\ file' = Flushed(file, buf[s])
            /\ buf' = [buf EXCEPT ![s] = << >>]
            /\ csvfile' = [csvfile EXCEPT ![s] = "closed"]
            /\ Advance(s)
       ELSE /\ pollpc' = [pollpc EXCEPT ![s] = "dead"]
            /\ UNCHANGED <<file, buf, pidx, csvfile>>
    /\ UNCHANGED <<mainpc, nSess, bidx, clock, file_exists, controls, monitoring,
                   last_states, timestamp, checks_count, changes_count,
                   fetchLog, closes, reported>>

\* csvfile.flush() after the row.  ok = FALSE: flush raises, which ends the
\* thread.
PollFlush(s, ok) ==
    /\ mainpc # "exited"
    /\ pollpc[s] = "flush"
    /\ IF ok
       THEN /\ file' = Flushed(file, buf[s])
            /\ buf' = [buf EXCEPT ![s] = << >>]
            /\ Advance(s)
       ELSE /\ pollpc' = [pollpc EXCEPT ![s] = "dead"]
            /\ UNCHANGED <<file, buf, pidx>>
    /\ UNCHANGED <<mainpc, nSess, bidx, clock, file_exists, controls, monitoring,
                   last_states, csvfile, timestamp, checks_count, changes_count,
                   fetchLog, closes, reported>>

Next ==
    \/ \E sel \in Catalogs : StartGroupMonitoring(sel)
    \/ \E ok \in BOOLEAN : OpenCsv(ok)
    \/ \E r \in FetchResults, wok \in BOOLEAN : BaselineStep(r, wok)
    \/ \E ok \in BOOLEAN : BaselineFlush(ok)
    \/ PressEnter
    \/ JoinReturn
    \/ Exit
    \/ \E s \in Sessions : PollWhile(s)
    \/ \E s \in Sessions, r \in FetchResults, wok \in BOOLEAN : PollFetch(s, r, wok)
    \/ \E s \in Sessions, ok \in BOOLEAN : PollFlush(s, ok)

Spec == Init /\ [][Next]_vars

\* ============================================================== properties
\* The ChangeLog as session s's handle sees it: what is on disk followed by
\* what the handle has buffered.
ChangeLog(s) == file \o buf[s]

\* The records of session s for control u, in ChangeLog order.
EntityRows(s, u) == SelectSeq(ChangeLog(s), LAMBDA row : row.sess = s /\ row.uuid = u)

\* The state column of a sequence of rows.
StatesOf(rows) == [i \in 1..Len(rows) |-> rows[i].state]

\* A sequence of fetch results without its None results.
DropNone(seq) == SelectSeq(seq, LAMBDA r : r # None)

\* A sequence with every run of equal neighbours reduced to one element.
RECURSIVE Collapse(_)
Collapse(seq) ==
    IF Len(seq) <= 1 THEN seq
    ELSE IF seq[1] = seq[2] THEN Collapse(Tail(seq))
         ELSE <<seq[1]>> \o Collapse(Tail(seq))

\* A writerow or flush of session s has raised: in the loop (the thread
\* ended with the exception) or in the baseline pass (the handler ran with
\* the file open).
WriteFailed(s) == pollpc[s] = "dead" \/ (reported[s] = "error" /\ csvfile[s] = "open")

\* The data rows among the rows a handle has not flushed.
Unflushed(s) == SelectSeq(buf[s], LAMBDA row : row.phase # "header")

\* The step is a get_control_state(u) of session s's loop / baseline pass.
LoopFetches(s, u) ==
    pollpc[s] = "fetch" /\ Len(fetchLog'[s][u]) = Len(fetchLog[s][u]) + 1
BaselineFetches(s, u) ==
    mainpc = "baseline" /\ s = nSess /\ Len(fetchLog'[s][u]) = Len(fetchLog[s][u]) + 1
Fetched(s, u) == fetchLog'[s][u][Len(fetchLog'[s][u])]

\* C1: in every tick and for every control, the loop appends a record for
\* the control exactly when the fetch returned a state and that state
\* differs from the control's last_states entry (no entry counts as
\* different); the record carries the fetched state; in every other case
\* nothing is appended and no other control's records change.  (A writerow
\* that raises appends nothing: that case is the write failure of C8.)
C1_RecordIffChanged ==
    [][\A s \in Sessions, u \in Uuids :
         LoopFetches(s, u) =>
           LET r == Fetched(s, u)
               differs == r # None /\ r # last_states[s][u]
           IN
           /\ differs /\ pollpc'[s] # "dead" =>
                EntityRows(s, u)' =
                  Append(EntityRows(s, u), Row(s, "change", u, r, timestamp[s]))
           /\ ~(differs /\ pollpc'[s] # "dead") => EntityRows(s, u)' = EntityRows(s, u)
           /\ \A v \in Uuids \ {u} : EntityRows(s, v)' = EntityRows(s, v)
      ]_vars

\* C1's case: a tick that fetched the stored state again (nothing written)
\* and a later tick that fetched another state (one record).
C1_Witness ==
    \E s \in Sessions :
        /\ fetchLog[s]["e1"] = <<"on", "on", "off">>
        /\ Len(EntityRows(s, "e1")) = 2
        /\ EntityRows(s, "e1")[2].phase = "change"

\* C2: for every control of a session whose writes did not raise, the
\* states of its records, in order, are its fetched states with the None
\* results dropped and equal neighbours collapsed.
C2_RecordsAreCollapsedFetches ==
    \A s \in Sessions, u \in Uuids :
        ~WriteFailed(s) =>
            StatesOf(EntityRows(s, u)) = Collapse(DropNone(fetchLog[s][u]))

\* C2's case: the same state fetched again across an unavailable tick, then
\* another state: two records.
C2_Witness ==
    \E s \in Sessions :
        /\ fetchLog[s]["e1"] = <<"on", None, "on", "off">>
        /\ StatesOf(EntityRows(s, "e1")) = <<"on", "off">>

\* C3: a get_control_state that returns None, in the baseline pass or in a
\* tick, changes neither last_states nor the file nor any buffer nor
\* changes_count, and the pass goes on: to the next control, or to the end
\* of the pass (the baseline flush / the next while test).
C3_UnavailableChangesNothing ==
    [][\A s \in Sessions, u \in Uuids :
         (LoopFetches(s, u) \/ BaselineFetches(s, u)) /\ Fetched(s, u) = None =>
           /\ UNCHANGED <<last_states, file, buf, changes_count, checks_count, monitoring>>
           /\ LoopFetches(s, u) =>
                \/ pollpc'[s] = "fetch" /\ pidx'[s] = pidx[s] + 1
                \/ pollpc'[s] = "while" /\ pidx[s] = Len(controls[s])
           /\ BaselineFetches(s, u) =>
                \/ mainpc' = "baseline" /\ bidx' = bidx + 1
                \/ mainpc' = "flush" /\ bidx = Len(controls[s])
      ]_vars

\* C3's case: a control known as "on" was unavailable in one tick, kept its
\* entry, and was fetched again in the next tick.
C3_Witness ==
    \E s \in Sessions :
        /\ fetchLog[s]["e1"] = <<"on", None, "off">>
        /\ checks_count[s] = 2
        /\ last_states[s]["e1"] = "off"

\* C4: a control whose baseline fetch returned None has no record as long
\* as all its fetches returned None, and exactly one record, a change
\* record with the fetched state, once its first fetch has returned a state
\* (in a session whose writes did not raise).
C4_FirstRecordOnFirstSuccess ==
    \A s \in Sessions, u \in Uuids :
        LET log == fetchLog[s][u] IN
        (~WriteFailed(s) /\ Len(log) >= 1 /\ log[1] = None) =>
            /\ DropNone(log) = << >> => EntityRows(s, u) = << >>
            /\ (Len(DropNone(log)) = 1 /\ log[Len(log)] # None) =>
                 /\ Len(EntityRows(s, u)) = 1
                 /\ EntityRows(s, u)[1].phase = "change"
                 /\ EntityRows(s, u)[1].state = log[Len(log)]
                 /\ checks_count[s] >= Len(log) - 1

\* C4's case: unavailable at the baseline and in the first tick, fetched in
\* the second tick.
C4_Witness ==
    \E s \in Sessions :
        /\ fetchLog[s]["e1"] = <<None, None, "on">>
        /\ Len(EntityRows(s, "e1")) = 1

\* C5: once a tick has begun, it is finished before the poller halts, also
\* when the stop was requested within the tick and the join timed out: a
\* process that has ended left no stopped session's poller inside a tick.
C5_TickCompletesBeforeHalt ==
    \A s \in Sessions :
        (mainpc = "exited" /\ reported[s] = "stopped") =>
            pollpc[s] \notin {"fetch", "flush"}

\* C6: a session that opened the file and is over (its caller has returned
\* and its poller is not running) has closed the file exactly once.
C6_ClosedExactlyOnce ==
    \A s \in Sessions :
        (csvfile[s] # "none" /\ reported[s] \in {"stopped", "error"} /\ ~Alive(s)) =>
            closes[s] = 1

\* C7 as stated: at most one written record is ever unflushed, baseline
\* records included.
C7_AtMostOneUnflushed ==
    \A s \in Sessions : Len(Unflushed(s)) <= 1

\* C7 as the code has it: the loop flushes after every record, so a running
\* or ended poller has at most one unflushed record; the baseline pass
\* flushes once at its end, so until then up to one record per control is
\* unflushed.
C7_FlushPerChangeOncePerBaseline ==
    \A s \in Sessions :
        /\ pollpc[s] # "idle" => Len(Unflushed(s)) <= 1
        /\ pollpc[s] # "idle" /\ pollpc[s] # "flush" /\ pollpc[s] # "dead" => buf[s] = << >>
        /\ pollpc[s] = "idle" => Len(Unflushed(s)) <= Len(controls[s])

\* C7's case: the loop has written a record and not yet flushed it.
C7_Witness ==
    \E s \in Sessions :
        /\ pollpc[s] = "flush"
        /\ Len(Unflushed(s)) = 1
        /\ buf[s][1].phase = "change"

\* C8: after a write failure the session's caller is told of the error and
\* the file has been closed: no caller of a session whose write raised is
\* told anything else, and none returns with the file left open.
C8_WriteFailureSurfaced ==
    \A s \in Sessions :
        (WriteFailed(s) /\ reported[s] # "none") =>
            reported[s] = "error" /\ csvfile[s] = "closed"

\* A context of session s that writes through an open handle: its running
\* poller, or the main thread in its baseline pass.
Writer(s) ==
    /\ csvfile[s] = "open"
    /\ Alive(s) \/ (s = nSess /\ mainpc \in {"baseline", "flush"})

\* C9: at most one context holds an open write handle on the file.
C9_SingleWriter ==
    \A s1, s2 \in Sessions : (Writer(s1) /\ Writer(s2)) => s1 = s2

\* C10: a session is reported stopped only when its poller has left the
\* loop and closed the file.
C10_StoppedMeansLoopLeft ==
    \A s \in Sessions :
        reported[s] = "stopped" => (~Alive(s) /\ csvfile[s] # "open")

\* A step of session s's poller.
PollerStep(s) ==
    \/ PollWhile(s)
    \/ \E r \in FetchResults, wok \in BOOLEAN : PollFetch(s, r, wok)
    \/ \E ok \in BOOLEAN : PollFlush(s, ok)

\* C11: once the stop signal of a started poller is set, the poller goes on
\* until it has left the loop and closed the file: in no state is such a
\* poller short of that and unable to take a further step (also after the
\* join timed out).
C11_StoppedPollerReachesClose ==
    \A s \in Sessions :
        (pollpc[s] # "idle" /\ ~monitoring[s]) =>
            \/ pollpc[s] = "done" /\ csvfile[s] = "closed"
            \/ ENABLED PollerStep(s)

\* The number of header rows / of data rows in a sequence of rows.
Headers(rows) == Len(SelectSeq(rows, LAMBDA row : row.phase = "header"))
DataRows(rows) == Len(SelectSeq(rows, LAMBDA row : row.phase # "header"))

\* C12: whatever sessions have run on the destination, a file that holds
\* rows holds exactly one header, as its first row.
C12_OneHeaderFirst ==
    file # << >> => (file[1] = HeaderRow /\ Headers(file) = 1)

\* The records of session s, in ChangeLog order.
SessionRows(s) == SelectSeq(ChangeLog(s), LAMBDA row : row.sess = s)

\* C13: in every session the loop starts only after the baseline pass: while
\* the main thread is in the session's open, baseline pass or baseline
\* flush, the poller has not started, no tick is counted and no change
\* record exists; and for every control no baseline record of the session
\* follows a change record of the session.
C13_BaselineBeforeChanges ==
    \A s \in Sessions :
        /\ (s = nSess /\ mainpc \in {"open", "baseline", "flush"}) =>
              /\ pollpc[s] = "idle"
              /\ checks_count[s] = 0
              /\ \A i \in 1..Len(SessionRows(s)) : SessionRows(s)[i].phase = "baseline"
        /\ \A u \in Uuids :
              LET rows == EntityRows(s, u) IN
              \A i, j \in 1..Len(rows) :
                  (rows[i].phase = "change" /\ rows[j].phase = "baseline") => j < i

\* C13's case: a control with a baseline record and a change record after
\* it.
C13_Witness ==
    \E s \in Sessions :
        /\ Len(EntityRows(s, "e1")) = 2
        /\ EntityRows(s, "e1")[1].phase = "baseline"
        /\ EntityRows(s, "e1")[2].phase = "change"

\* C14: a start_group_monitoring call with no controls returns at once: the
\* call changes nothing but the caller's being told, leaves the main thread
\* in the menu, and its session never has a file handle, a buffered row, a
\* fetch, an active flag or a poller.
C14_EmptyStartDoesNothing ==
    /\ [][(nSess' = nSess + 1 /\ controls'[nSess'] = << >>) =>
            /\ reported'[nSess'] = "rejected"
            /\ mainpc' = "menu"
            /\ UNCHANGED <<file_exists, file, csvfile, buf, pollpc, fetchLog,
                           monitoring, last_states, clock, closes>>
         ]_vars
    /\ [](\A s \in 1..nSess :
            controls[s] = << >> =>
              /\ csvfile[s] = "none" /\ buf[s] = << >> /\ pollpc[s] = "idle"
              /\ ~monitoring[s]
              /\ \A u \in Uuids : fetchLog[s][u] = << >>)

\* C14's case: an empty start on a destination that does not exist; it
\* still does not exist afterwards.
C14_Witness ==
    /\ nSess >= 1
    /\ reported[1] = "rejected"
    /\ ~file_exists
    /\ file = << >>

\* The ticks session s's poller has completed, counted from what it did:
\* the smallest number of loop fetches any of its controls has had (every
\* control has one more fetch, the baseline one).
RECURSIVE MinFetches(_, _, _)
MinFetches(s, sel, i) ==
    IF i = Len(sel) THEN Len(fetchLog[s][sel[i]])
    ELSE LET rest == MinFetches(s, sel, i + 1)
             here == Len(fetchLog[s][sel[i]])
         IN IF here < rest THEN here ELSE rest
TicksCompleted(s) == MinFetches(s, controls[s], 1) - 1

\* C15: whenever a started poller is between two ticks or has left the loop
\* (where it prints its totals), checks_count is the number of ticks it has
\* completed, whatever the fetches returned.
C15_ChecksAreCompletedTicks ==
    \A s \in Sessions :
        pollpc[s] \in {"while", "done"} =>
            /\ checks_count[s] = TicksCompleted(s)
            /\ \A u \in Uuids :
                 Len(fetchLog[s][u]) =
                   IF \E i \in 1..Len(controls[s]) : controls[s][i] = u
                   THEN 1 + checks_count[s] ELSE 0

\* C15's case: two ticks completed in which every fetch was unavailable,
\* and the poller has left the loop.
C15_Witness ==
    \E s \in Sessions :
        /\ pollpc[s] = "done"
        /\ checks_count[s] = 2
        /\ fetchLog[s]["e1"] = <<"on", None, None>>

\* C16: in every state, also inside a tick, changes_count is at most
\* checks_count times the number of monitored controls, and no step makes
\* either counter smaller.
C16_ChangesBoundedByChecks ==
    /\ [](\A s \in Sessions :
            changes_count[s] <= checks_count[s] * Len(controls[s]))
    /\ [][\A s \in Sessions :
            /\ changes_count'[s] >= changes_count[s]
            /\ checks_count'[s] >= checks_count[s]]_vars

\* C16's case: inside a tick over two controls, both already counted as
\* changed.
C16_Witness ==
    \E s \in Sessions :
        /\ Len(controls[s]) = 2
        /\ checks_count[s] = 1
        /\ changes_count[s] = 2
        /\ pollpc[s] = "flush"

\* The position of control u in session s's selected_controls.
Position(s, u) == CHOOSE i \in 1..Len(controls[s]) : controls[s][i] = u

\* The pairs of neighbours in a sequence of rows whose second control does
\* not come later in the catalog than the first.
Descents(s, rows) ==
    Cardinality({i \in 1..(Len(rows) - 1) :
                   Position(s, rows[i + 1].uuid) <= Position(s, rows[i].uuid)})

\* The rows of session s written in the given phase, in ChangeLog order.
PhaseRows(s, ph) == SelectSeq(SessionRows(s), LAMBDA row : row.phase = ph)

\* C17: a pass visits the controls in catalog order and a record is flushed
\* before the next control is fetched.  When the loop is about to fetch
\* control number pidx, exactly the controls before it have been fetched in
\* this tick and nothing is buffered; the baseline records of a session are
\* in catalog order; and its change records are in catalog order tick by
\* tick (they fall back in the catalog fewer times than ticks were begun).
C17_CatalogOrder ==
    \A s \in Sessions :
        /\ pollpc[s] = "fetch" =>
             /\ buf[s] = << >>
             /\ \A j \in 1..Len(controls[s]) :
                  Len(fetchLog[s][controls[s][j]]) =
                    IF j < pidx[s] THEN 1 + checks_count[s] ELSE checks_count[s]
        /\ (s = nSess /\ mainpc = "baseline") =>
             \A j \in 1..Len(controls[s]) :
                  Len(fetchLog[s][controls[s][j]]) = IF j < bidx THEN 1 ELSE 0
        /\ Descents(s, PhaseRows(s, "baseline")) = 0
        /\ PhaseRows(s, "change") # << >> =>
             Descents(s, PhaseRows(s, "change")) < checks_count[s]

\* C17's case: one tick wrote a record for each of two controls.
C17_Witness ==
    \E s \in Sessions :
        /\ Len(PhaseRows(s, "change")) = 2
        /\ PhaseRows(s, "change")[1].uuid = "e1"
        /\ PhaseRows(s, "change")[2].uuid = "e2"
        /\ checks_count[s] = 1

\* Whether sequence p is a prefix of sequence q.
IsPrefix(p, q) == Len(p) <= Len(q) /\ SubSeq(q, 1, Len(p)) = p

\* C18: every step (open, baseline write, change write, flush, close, the
\* open of a later session) leaves the rows that were on disk in place,
\* unchanged and in order, and at most adds rows after them.
C18_AppendOnly == [][IsPrefix(file, file')]_vars

\* C18's case: a later session of the process has appended to a file that
\* held a header and a row of an earlier run, and to the first session's
\* rows.
C18_Witness ==
    /\ Len(file) >= 4
    /\ file[1] = HeaderRow
    /\ file[2] = PriorRow
    /\ file[3].sess = 1
    /\ file[Len(file)].sess = 2

\* Whether the timestamps of a sequence of rows never decrease.
NonDecreasing(rows) ==
    \A i, j \in 1..Len(rows) : i <= j => rows[i].ts <= rows[j].ts

\* C19: (the clock never goes back) every record the loop writes carries the
\* timestamp taken at the start of its tick, which changes only at the start
\* of a tick; for every control the timestamp of its first record of the
\* session is at most that of each later one; and the timestamps of a
\* session's records never decrease in ChangeLog order.
C19_Timestamps ==
    /\ [](\A s \in Sessions :
            /\ NonDecreasing(SessionRows(s))
            /\ \A u \in Uuids :
                 \A i \in 1..Len(EntityRows(s, u)) :
                     EntityRows(s, u)[1].ts <= EntityRows(s, u)[i].ts)
    /\ [][\A s \in Sessions :
            /\ timestamp'[s] # timestamp[s] =>
                  pollpc[s] = "while" /\ pollpc'[s] = "fetch" /\ timestamp'[s] = clock'
            /\ pollpc[s] \in {"fetch", "flush"} /\ SessionRows(s)' # SessionRows(s) =>
                  /\ Len(SessionRows(s)') = Len(SessionRows(s)) + 1
                  /\ SessionRows(s)'[Len(SessionRows(s)')].ts = timestamp[s]
                  /\ timestamp'[s] = timestamp[s]
         ]_vars

\* C19's case: a baseline record, then one tick at a later time that wrote a
\* record for each of two controls, both with the tick's timestamp.
C19_Witness ==
    \E s \in Sessions :
        /\ Len(SessionRows(s)) = 3
        /\ SessionRows(s)[1].phase = "baseline"
        /\ SessionRows(s)[2].uuid = "e1" /\ SessionRows(s)[3].uuid = "e2"
        /\ SessionRows(s)[1].ts < SessionRows(s)[2].ts
        /\ SessionRows(s)[2].ts = timestamp[s]
        /\ SessionRows(s)[3].ts = timestamp[s]
        /\ SessionRows(s)[3].phase = "change"

\* The state of the last record of session s for control u, None when the
\* session has no record for it.
LastRecorded(s, u) ==
    IF EntityRows(s, u) = << >> THEN None
    ELSE EntityRows(s, u)[Len(EntityRows(s, u))].state

\* Session s is at the end of its baseline pass or between two ticks of its
\* loop (the last tick's end included).
AtPassBoundary(s) ==
    \/ s = nSess /\ mainpc = "flush"
    \/ pollpc[s] \in {"while", "done"}

\* C20: at the end of the baseline pass and between ticks, for every control
\* the last_states entry is the state of the session's last record for the
\* control, and there is no entry exactly when the session has no record
\* for it.
C20_StateTableIsLastRecord ==
    \A s \in Sessions, u \in Uuids :
        AtPassBoundary(s) =>
            /\ last_states[s][u] = LastRecorded(s, u)
            /\ last_states[s][u] = None <=> EntityRows(s, u) = << >>

\* C20's case: between ticks, a control whose baseline state was replaced by
\* a change and a control that was never fetched successfully.
C20_Witness ==
    \E s \in Sessions :
        /\ pollpc[s] = "while"
        /\ checks_count[s] >= 1
        /\ Len(EntityRows(s, "e1")) = 2
        /\ last_states[s]["e1"] = "off"
        /\ Len(fetchLog[s]["e2"]) = 2
        /\ last_states[s]["e2"] = None

\* changes_count of session s is the number of records its loop has appended
\* to the ChangeLog (the baseline records are not counted).
CountsLoopRecords(s) == changes_count[s] = Len(PhaseRows(s, "change"))

\* C21: between ticks, when the loop has ended on the stop signal and when
\* it has ended on a writerow or flush that raised, changes_count is the
\* number of records the loop has appended in the session.
C21_ChangesCountIsLoopRecords ==
    \A s \in Sessions :
        pollpc[s] \in {"while", "done", "dead"} => CountsLoopRecords(s)

\* The part of C21 without the write failure: between ticks and after the
\* loop has ended on the stop signal.
ChangesCountAtTickBoundary ==
    \A s \in Sessions : pollpc[s] \in {"while", "done"} => CountsLoopRecords(s)

\* The step is a writerow or a flush on session s's handle: an iteration of
\* the baseline pass or its flush, or a fetch-and-write or flush of the loop.
WritesOrFlushes(s) ==
    \/ /\ s = nSess
       /\ \/ \E r \in FetchResults, wok \in BOOLEAN : BaselineStep(r, wok)
          \/ \E ok \in BOOLEAN : BaselineFlush(ok)
    \/ \E r \in FetchResults, wok \in BOOLEAN : PollFetch(s, r, wok)
    \/ \E ok \in BOOLEAN : PollFlush(s, ok)

\* C22: in every interleaving of the pollers and the main thread, no step
\* writes to or flushes a handle that has been closed, a closed handle stays
\* closed with nothing buffered, and a session's monitoring["active"], once
\* False, is never True again.
C22_NoWriteAfterCloseFlagStaysFalse ==
    /\ [](\A s \in Sessions : csvfile[s] = "closed" => buf[s] = << >>)
    /\ [][\A s \in Sessions :
            /\ csvfile[s] = "closed" =>
                  /\ ~WritesOrFlushes(s)
                  /\ csvfile'[s] = "closed"
                  /\ buf'[s] = buf[s]
            /\ (s <= nSess /\ ~monitoring[s]) => ~monitoring'[s]
         ]_vars

\* C22's case: the first session was stopped and its handle closed, and a
\* second session has since written its baseline and run a tick.
C22_Witness ==
    /\ csvfile[1] = "closed"
    /\ ~monitoring[1]
    /\ monitoring[2]
    /\ pollpc[2] = "while"
    /\ checks_count[2] >= 1
    /\ PhaseRows(2, "baseline") # << >>

====
